---- MODULE Spec2Model ----
(***************************************************************************)
(* Model of update_website.py: the pipeline that fetches seven published   *)
(* sheets, folds their rows into section records, mirrors Google Drive     *)
(* images into images/ and writes index.html.                              *)
(*                                                                         *)
(* Encoding of Python values.                                              *)
(*   str   a sequence of tokens; the string is the concatenation of the    *)
(*         tokens, '' is << >>.  A token is either one character ("|",     *)
(*         " ", "\n") or a word that the string operations of the program  *)
(*         can only meet whole: no token of the alphabets used below       *)
(*         contains a separator, a prefix or a suffix the program looks    *)
(*         for, except the token that is that separator, prefix or suffix, *)
(*         and none is produced across a token boundary.                   *)
(*   None  the one-token sequence None, whose token occurs in no str; a    *)
(*         str method applied to it raises AttributeError.                 *)
(*   dict  a function; "k in d" is k \in DOMAIN d.                         *)
(*   list  a sequence.                                                     *)
(* A call that can raise returns [ok |-> TRUE, val |-> v] or               *)
(* [ok |-> FALSE, exc |-> name of the exception].                          *)
(***************************************************************************)
EXTENDS Integers, Sequences, FiniteSets, TLC

VARIABLES
    pc,            \* position of main(): the statement about to run
    config,        \* sheet_config.json: [file |-> its kind, keys |-> its keys]
    served,        \* section -> the sheet published at the section's URL
    images_dir,    \* "absent", "present", or "blocked" (cannot be created)
    data,          \* section -> rows returned by read_csv_from_url
    fetched,       \* sections whose read_csv_from_url call has returned
    failed,        \* sections whose fetch raised inside read_csv_from_url
    rec,           \* section -> record returned by the section's parser
    parsed,        \* sections whose parser has returned
    img_i,         \* index of the service detail process_all_images is at
    attempts,      \* number of download_image_from_gdrive calls made
    saved,         \* files present under images/
    html,          \* the document generate_html returned
    index_html,    \* content of index.html
    writes,        \* number of times index.html was written
    exit_status,   \* -1 while running, then the process exit status
    diag,          \* the "Please create sheet_config.json" text was printed
    raised,        \* exception that left main(), "" when none
    raised_in,     \* function the exception left first, "" when none
    f_in,          \* input of the pure function under check
    f_name,        \* pure function applied last, "" before any
    f_out          \* its result

vars == <<pc, config, served, images_dir, data, fetched, failed, rec, parsed,
          img_i, attempts, saved, html, index_html, writes, exit_status, diag,
          raised, raised_in, f_in, f_name, f_out>>

mainVars == <<pc, config, served, images_dir, data, fetched, failed, rec,
              parsed, img_i, attempts, saved, html, index_html, writes,
              exit_status, diag, raised, raised_in>>

funVars == <<f_in, f_name, f_out>>

---------------------------------------------------------------------------
(* Python values *)

None == <<"None:NoneType">>

Truthy(v) == v # None /\ v # << >>

\* the str made of the one token t
S(t) == <<t>>

Ok(v) == [ok |-> TRUE, val |-> v]

Raise(e) == [ok |-> FALSE, exc |-> e]

Range(s) == {s[i] : i \in 1..Len(s)}

\* row.get(c): None when the row has no such key
Get(row, c) == IF c \in DOMAIN row THEN row[c] ELSE None

\* row.get(c, d)
GetD(row, c, d) == IF c \in DOMAIN row THEN row[c] ELSE d

\* d[k] = v on a dict
DictSet(d, k, v) == [x \in (DOMAIN d) \cup {k} |-> IF x = k THEN v ELSE d[x]]

EmptyDict == [x \in {} |-> << >>]

\* f'{v}': None is formatted as the text None
Fmt(v) == IF v = None THEN <<"None">> ELSE v

---------------------------------------------------------------------------
(* str operations, on token sequences *)

startswith(s, p) == Len(s) >= Len(p) /\ SubSeq(s, 1, Len(p)) = p

endswith(s, p) == Len(s) >= Len(p) /\ SubSeq(s, Len(s) - Len(p) + 1, Len(s)) = p

\* first index >= i at which sep occurs in s, 0 when there is none
RECURSIVE FindFrom(_, _, _)
FindFrom(s, sep, i) ==
    IF i + Len(sep) - 1 > Len(s) THEN 0
    ELSE IF SubSeq(s, i, i + Len(sep) - 1) = sep THEN i
    ELSE FindFrom(s, sep, i + 1)

\* sep in s
Contains(s, sep) == FindFrom(s, sep, 1) # 0

\* s.split(sep): left to right, occurrences do not overlap
RECURSIVE split(_, _)
split(s, sep) ==
    LET i == FindFrom(s, sep, 1)
    IN  IF i = 0 THEN <<s>>
        ELSE <<SubSeq(s, 1, i - 1)>> \o split(SubSeq(s, i + Len(sep), Len(s)), sep)

\* s.replace(old, ''): every occurrence of old removed, in one pass
RECURSIVE replace_empty(_, _)
replace_empty(s, old) ==
    LET i == FindFrom(s, old, 1)
    IN  IF i = 0 THEN s
        ELSE SubSeq(s, 1, i - 1) \o replace_empty(SubSeq(s, i + Len(old), Len(s)), old)

Whitespace == {" ", "\n"}

RECURSIVE lstrip(_)
lstrip(s) == IF s # << >> /\ Head(s) \in Whitespace THEN lstrip(Tail(s)) ELSE s

RECURSIVE rstrip(_)
rstrip(s) ==
    IF s # << >> /\ s[Len(s)] \in Whitespace THEN rstrip(SubSeq(s, 1, Len(s) - 1)) ELSE s

strip(s) == rstrip(lstrip(s))

---------------------------------------------------------------------------
(* csv.DictReader over the decoded body *)

\* One row per non-empty line; a cell the line is too short for is None.
\* Lines are never longer than the header in the sheets used here.
DictReaderRow(header, line) ==
    [c \in Range(header) |->
        LET i == CHOOSE j \in 1..Len(header) : header[j] = c
        IN  IF i <= Len(line) THEN line[i] ELSE None]

RECURSIVE DictReader(_, _)
DictReader(header, lines) ==
    IF lines = << >> THEN << >>
    ELSE IF Head(lines) = << >> THEN DictReader(header, Tail(lines))
    ELSE <<DictReaderRow(header, Head(lines))>> \o DictReader(header, Tail(lines))

---------------------------------------------------------------------------
(* Section parsers *)

\* the fold of parse_general_info keeping the first value of a repeated field
RECURSIVE parse_general_info_FirstWins(_, _)
parse_general_info_FirstWins(info, rows) ==
    IF rows = << >> THEN info
    ELSE LET row == Head(rows)
         IN  parse_general_info_FirstWins(
                 IF /\ Truthy(Get(row, "field")) /\ Truthy(Get(row, "value"))
                    /\ row["field"] \notin DOMAIN info
                 THEN DictSet(info, row["field"], row["value"])
                 ELSE info,
                 Tail(rows))

RECURSIVE parse_general_info_from(_, _)
parse_general_info_from(info, rows) ==
    IF rows = << >> THEN info
    ELSE LET row == Head(rows)
         IN  parse_general_info_from(
                 IF Truthy(Get(row, "field")) /\ Truthy(Get(row, "value"))
                 THEN DictSet(info, row["field"], row["value"])
                 ELSE info,
                 Tail(rows))

parse_general_info(rows) == parse_general_info_from(EmptyDict, rows)

RECURSIVE parse_hero_from(_, _)
parse_hero_from(hero, rows) ==
    IF rows = << >> THEN hero
    ELSE LET row == Head(rows)
         IN  parse_hero_from(
                 IF Truthy(Get(row, "field")) /\ Truthy(Get(row, "value"))
                 THEN DictSet(hero, row["field"], row["value"])
                 ELSE hero,
                 Tail(rows))

parse_hero(rows) == parse_hero_from(EmptyDict, rows)

RECURSIVE parse_contact_from(_, _)
parse_contact_from(contact, rows) ==
    IF rows = << >> THEN contact
    ELSE LET row == Head(rows)
         IN  parse_contact_from(
                 IF Truthy(Get(row, "field")) /\ Truthy(Get(row, "value"))
                 THEN DictSet(contact, row["field"], row["value"])
                 ELSE contact,
                 Tail(rows))

parse_contact(rows) == parse_contact_from(EmptyDict, rows)

\* next((s for s in stats if s['key'] == stat_key), None), as an index; 0 is None
StatIndex(stats, stat_key) ==
    IF \E i \in 1..Len(stats) : stats[i].key = stat_key
    THEN CHOOSE i \in 1..Len(stats) :
             /\ stats[i].key = stat_key
             /\ \A j \in 1..(i - 1) : stats[j].key # stat_key
    ELSE 0

\* the stat key parse_about computes for a *_number / *_label field
StatKey(field, suffix) == replace_empty(field, suffix)

\* one iteration of the loop of parse_about
parse_about_row(about, row) ==
    LET field == GetD(row, "field", << >>)
        value == GetD(row, "value", << >>)
    IN  IF field = <<"title">> THEN Ok([about EXCEPT !.title = value])
        ELSE IF field = None THEN Raise("AttributeError")
        ELSE IF startswith(field, <<"paragraph">>)
             THEN Ok([about EXCEPT !.paragraphs = Append(@, value)])
        ELSE IF endswith(field, <<"_number">>)
             THEN LET stat_key == StatKey(field, <<"_number">>)
                      i == StatIndex(about.stats, stat_key)
                  IN  IF i = 0
                      THEN Ok([about EXCEPT !.stats =
                               Append(@, [key |-> stat_key, number |-> value, label |-> << >>])])
                      ELSE Ok([about EXCEPT !.stats[i].number = value])
        ELSE IF endswith(field, <<"_label">>)
             THEN LET stat_key == StatKey(field, <<"_label">>)
                      i == StatIndex(about.stats, stat_key)
                  IN  IF i = 0
                      THEN Ok([about EXCEPT !.stats =
                               Append(@, [key |-> stat_key, number |-> << >>, label |-> value])])
                      ELSE Ok([about EXCEPT !.stats[i].label = value])
        ELSE Ok(about)

RECURSIVE parse_about_from(_, _)
parse_about_from(about, rows) ==
    IF rows = << >> THEN Ok(about)
    ELSE LET r == parse_about_row(about, Head(rows))
         IN  IF r.ok THEN parse_about_from(r.val, Tail(rows)) ELSE r

parse_about(rows) ==
    parse_about_from([title |-> << >>, paragraphs |-> << >>, stats |-> << >>], rows)

DefaultIcon == <<"U+1F3AF">>

DefaultGradient == <<"from-blue-500 to-cyan-500">>

DefaultBulletsTitle == <<"Key Services Include:">>

RECURSIVE parse_core_values(_)
parse_core_values(rows) ==
    IF rows = << >> THEN << >>
    ELSE LET row == Head(rows)
         IN  (IF Truthy(Get(row, "icon")) /\ Truthy(Get(row, "title"))
              THEN <<[icon        |-> GetD(row, "icon", DefaultIcon),
                      title       |-> GetD(row, "title", << >>),
                      description |-> GetD(row, "description", << >>),
                      gradient    |-> GetD(row, "gradient", DefaultGradient)]>>
              ELSE << >>) \o parse_core_values(Tail(rows))

RECURSIVE parse_services(_)
parse_services(rows) ==
    IF rows = << >> THEN << >>
    ELSE LET row == Head(rows)
         IN  (IF Truthy(Get(row, "name"))
              THEN <<[name     |-> GetD(row, "name", << >>),
                      link_id  |-> GetD(row, "link_id", << >>),
                      gradient |-> GetD(row, "gradient", DefaultGradient)]>>
              ELSE << >>) \o parse_services(Tail(rows))

\* [b.strip() for b in bullets if b.strip()]
RECURSIVE StripNonEmpty(_)
StripNonEmpty(parts) ==
    IF parts = << >> THEN << >>
    ELSE (IF strip(Head(parts)) # << >> THEN <<strip(Head(parts))>> ELSE << >>)
         \o StripNonEmpty(Tail(parts))

Bullets(row) ==
    StripNonEmpty(IF Truthy(Get(row, "key_services"))
                  THEN split(GetD(row, "key_services", << >>), <<"|">>)
                  ELSE << >>)

\* the value parse_service_details stores under 'image_position'
ImagePosition(row) == GetD(row, "image_position", <<"right">>)

RECURSIVE parse_service_details(_)
parse_service_details(rows) ==
    IF rows = << >> THEN << >>
    ELSE LET row == Head(rows)
         IN  (IF Truthy(Get(row, "service_id"))
              THEN <<[service_id     |-> GetD(row, "service_id", << >>),
                      title          |-> GetD(row, "title", << >>),
                      intro          |-> GetD(row, "intro", << >>),
                      bullets_title  |-> GetD(row, "bullets_title", DefaultBulletsTitle),
                      bullets        |-> Bullets(row),
                      closing        |-> GetD(row, "closing", << >>),
                      bg_image       |-> GetD(row, "bg_image", << >>),
                      image_position |-> ImagePosition(row)]>>
              ELSE << >>) \o parse_service_details(Tail(rows))

---------------------------------------------------------------------------
(* Image mirror *)

\* Tokens of URLs.  IdLead(t) is the longest prefix of the token t made of
\* the characters [a-zA-Z0-9_-], as a str; a token is an identifier token
\* when that prefix is the whole token.
IdTokens == {"ABC123", "XYZ_9"}

IdLead(t) ==
    CASE t \in IdTokens -> <<t>>
      [] t = "https://" -> <<"https">>
      [] t = "drive.google.com" -> <<"drive">>
      [] t = "googleusercontent.com" -> <<"googleusercontent">>
      [] t = "lh3." -> <<"lh3">>
      [] t = "example.com" -> <<"example">>
      [] t = "id=" -> <<"id">>
      [] t = "images/" -> <<"images">>
      [] t = "logo.png" -> <<"logo">>
      [] t = "export=download" -> <<"export">>
      [] OTHER -> << >>

\* the text [a-zA-Z0-9_-]* matches greedily at the start of s
RECURSIVE IdRun(_)
IdRun(s) ==
    IF s = << >> THEN << >>
    ELSE IF Head(s) \in IdTokens THEN <<Head(s)>> \o IdRun(Tail(s))
    ELSE IdLead(Head(s))

\* re.search(prefix + '([a-zA-Z0-9_-]+)', url) from index i on: group 1 of
\* the leftmost match, None when there is no match
RECURSIVE SearchFrom(_, _, _)
SearchFrom(url, prefix, i) ==
    IF i + Len(prefix) - 1 > Len(url) THEN None
    ELSE IF /\ SubSeq(url, i, i + Len(prefix) - 1) = prefix
            /\ IdRun(SubSeq(url, i + Len(prefix), Len(url))) # << >>
         THEN IdRun(SubSeq(url, i + Len(prefix), Len(url)))
    ELSE SearchFrom(url, prefix, i + 1)

\* the first two patterns tried in the other order
Patterns_IdFirst == << <<"id=">>, <<"/d/">>, <<"/file", "/d/">> >>

Patterns == << <<"/d/">>, <<"id=">>, <<"/file", "/d/">> >>

RECURSIVE FirstMatch(_, _)
FirstMatch(url, k) ==
    IF k > Len(Patterns) THEN None
    ELSE IF SearchFrom(url, Patterns[k], 1) # None THEN SearchFrom(url, Patterns[k], 1)
    ELSE FirstMatch(url, k + 1)

extract_gdrive_file_id(url) ==
    IF ~Truthy(url) THEN None ELSE FirstMatch(url, 1)

is_gdrive_url(url) ==
    IF ~Truthy(url) THEN FALSE
    ELSE Contains(url, <<"drive.google.com">>) \/ Contains(url, <<"googleusercontent.com">>)

\* The ways urlretrieve(download_url, filepath) can end: "complete", the file
\* is written and the call returns; "broken", the file is opened and the
\* transfer raises partway (ContentTooShortError), the file staying on disk;
\* "refused", the call raises before the file is opened.
Retrievals == {"complete", "broken", "refused"}

\* download_image_from_gdrive, given whether images/ can be made and how the
\* retrieval ends
download_image_from_gdrive(gdrive_url, local_filename, dir_ok, net) ==
    IF ~Truthy(extract_gdrive_file_id(gdrive_url)) THEN Ok(FALSE)
    ELSE IF ~dir_ok THEN Raise("OSError")
    ELSE Ok(net = "complete")

\* download_image_from_gdrive is entered
Downloads(url) == Truthy(url) /\ ~startswith(url, <<"images/">>) /\ is_gdrive_url(url)

\* os.makedirs('images', exist_ok=True) is reached and returns
MakesDir(url, dir_ok) ==
    Downloads(url) /\ Truthy(extract_gdrive_file_id(url)) /\ dir_ok

\* urlretrieve is reached and opens images/<local_filename> for writing
WritesFile(url, dir_ok, net) ==
    MakesDir(url, dir_ok) /\ net \in {"complete", "broken"}

process_image_url(url, default_filename, dir_ok, net) ==
    IF ~Truthy(url) THEN Ok(<< >>)
    ELSE IF startswith(url, <<"images/">>) THEN Ok(url)
    ELSE IF is_gdrive_url(url)
         THEN LET d == download_image_from_gdrive(url, default_filename, dir_ok, net)
              IN  IF ~d.ok THEN d
                  ELSE IF d.val THEN Ok(<<"images/">> \o default_filename)
                  ELSE Ok(<< >>)
    ELSE Ok(url)

---------------------------------------------------------------------------
(* Page renderer: the document as the record of its substitution points *)

\* text_to_paragraphs with the single-line split tried before the blank-line split
text_to_paragraphs_LinesFirst(text) ==
    IF ~Truthy(text) THEN << >>
    ELSE LET byPipes  == StripNonEmpty(split(text, <<"|", "|">>))
             byBlank  == StripNonEmpty(split(text, <<"\n", "\n">>))
             byLine   == StripNonEmpty(split(text, <<"\n">>))
             paragraphs ==
                 IF Contains(text, <<"|", "|">>) THEN byPipes
                 ELSE IF Len(byLine) > 1 THEN byLine
                 ELSE IF Len(byBlank) > 1 THEN byBlank
                 ELSE <<strip(text)>>
         IN  SelectSeq(paragraphs, LAMBDA para : para # << >>)

\* the paragraph blocks text_to_paragraphs emits, in order
text_to_paragraphs(text) ==
    IF ~Truthy(text) THEN << >>
    ELSE LET byPipes  == StripNonEmpty(split(text, <<"|", "|">>))
             byBlank  == StripNonEmpty(split(text, <<"\n", "\n">>))
             byLine   == StripNonEmpty(split(text, <<"\n">>))
             paragraphs ==
                 IF Contains(text, <<"|", "|">>) THEN byPipes
                 ELSE IF Len(byBlank) > 1 THEN byBlank
                 ELSE IF Len(byLine) > 1 THEN byLine
                 ELSE <<strip(text)>>
         IN  SelectSeq(paragraphs, LAMBDA para : para # << >>)

generate_service_detail_section(detail) ==
    [title         |-> Fmt(detail.title),
     id            |-> Fmt(detail.service_id),
     bg_image      |-> Fmt(detail.bg_image),
     mask          |-> IF detail.image_position = <<"left">> THEN "to right" ELSE "to left",
     space_left    |-> detail.image_position = <<"left">>,
     space_right   |-> detail.image_position = <<"right">>,
     intro         |-> text_to_paragraphs(detail.intro),
     bullets_title |-> Fmt(detail.bullets_title),
     bullets       |-> detail.bullets,
     closing       |-> text_to_paragraphs(detail.closing)]

\* the animation-delay class of the card at 0-based position i, 0 for none
AnimationDelay(i) == IF i > 0 THEN (i + 1) * 200 ELSE 0

generate_html(general, hero, about, values, services, service_details, contact) ==
    [title        |-> Fmt(GetD(general, S("site_title"), <<"TriStar">>)),
     logo         |-> Fmt(GetD(general, S("logo_url"), <<"images/", "logo.png">>)),
     logo_alt     |-> Fmt(GetD(general, S("company_name"), <<"TriStar">>)),
     company      |-> Fmt(GetD(general, S("company_name"), <<"TRI STAR">>)),
     hero_title   |-> Fmt(GetD(hero, S("title"), <<"Welcome to TriStar">>)),
     hero_sub     |-> Fmt(GetD(hero, S("subtitle"), <<"Building foundations for success">>)),
     hero_button  |-> Fmt(GetD(hero, S("button_text"), <<"Learn More">>)),
     about_title  |-> Fmt(GetD(about, "title", <<"About Us">>)),
     about_paragraphs |->
         [i \in 1..Len(GetD(about, "paragraphs", << >>)) |-> Fmt(about.paragraphs[i])],
     grid_cols    |-> Len(GetD(about, "stats", << >>)),
     stats        |->
         [i \in 1..Len(GetD(about, "stats", << >>)) |->
             [number |-> Fmt(about.stats[i].number), label |-> Fmt(about.stats[i].label)]],
     values       |->
         [i \in 1..Len(values) |->
             [gradient |-> Fmt(values[i].gradient), icon |-> Fmt(values[i].icon),
              title |-> Fmt(values[i].title), description |-> Fmt(values[i].description),
              delay |-> AnimationDelay(i - 1)]],
     services     |->
         [i \in 1..Len(services) |->
             [link_id |-> Fmt(services[i].link_id), gradient |-> Fmt(services[i].gradient),
              name |-> Fmt(services[i].name), delay |-> AnimationDelay(i - 1)]],
     details      |->
         [i \in 1..Len(service_details) |-> generate_service_detail_section(service_details[i])],
     contact_title |-> Fmt(GetD(contact, S("title"), <<"Get In Touch">>)),
     name_label   |-> Fmt(GetD(contact, S("name_label"), <<"Name">>)),
     name_placeholder |-> Fmt(GetD(contact, S("name_placeholder"), <<"Your name">>)),
     email_label  |-> Fmt(GetD(contact, S("email_label"), <<"Email">>)),
     email_placeholder |-> Fmt(GetD(contact, S("email_placeholder"), <<"your@email.com">>)),
     message_label |-> Fmt(GetD(contact, S("message_label"), <<"Message">>)),
     message_placeholder |-> Fmt(GetD(contact, S("message_placeholder"), <<"Your message">>)),
     contact_button |-> Fmt(GetD(contact, S("button_text"), <<"Send Message">>)),
     footer       |-> Fmt(GetD(general, S("footer_text"), <<"(c) 2025 TriStar. All rights reserved.">>))]

---------------------------------------------------------------------------
(* Sheets: the published CSV documents the fetcher can be served *)

MaxRows == 3

SeqsUpTo(pool, n) == UNION {[1..m -> pool] : m \in 0..n}

\* field/value sheet; the value column comes first, so that a line holding
\* only one cell leaves 'field' without a value
FieldValueSheet ==
    [header |-> <<"value", "field">>,
     pool   |-> { <<S("5")>>,
                  <<S("X"), S("title")>>,
                  <<S("Y"), S("title")>>,
                  <<S("A"), <<"paragraph", "1">>>>,
                  <<S("5"), <<"x", "_number">>>>,
                  <<S("L"), <<"x", "_label">>>>,
                  <<S("7"), <<"x", "_number", "_number">>>>,
                  <<S("M"), <<"x", "_number", "_label">>>>,
                  <<S("3"), <<"paragraph", "_number">>>>,
                  << << >>, S("title")>>,
                  <<S("B"), << >>>>,
                  << >> }]

ValuesSheet ==
    [header |-> <<"icon", "title", "description", "gradient">>,
     pool   |-> { <<S("I1"), S("T1"), S("D1"), S("g1")>>,
                  <<S("I2"), S("T2"), S("D2"), << >>>>,
                  <<S("I3"), S("T3")>>,
                  << << >>, S("T4"), S("D4"), S("g4")>>,
                  <<S("I5")>> }]

ValuesSheetNoGradient ==
    [header |-> <<"icon", "title", "description">>,
     pool   |-> { <<S("I1"), S("T1"), S("D1")>>,
                  <<S("I3"), S("T3")>>,
                  << << >>, S("T4"), S("D4")>> }]

ServicesSheet ==
    [header |-> <<"name", "link_id", "gradient">>,
     pool   |-> { <<S("N1"), S("l1"), S("g1")>>,
                  <<S("N2"), S("l2"), << >>>>,
                  <<S("N3")>>,
                  << << >>, S("l4"), S("g4")>> }]

ServicesSheetNoGradient ==
    [header |-> <<"name", "link_id">>,
     pool   |-> { <<S("N1"), S("l1")>>,
                  <<S("N3")>>,
                  << << >>, S("l4")>> }]

DetailsSheet ==
    [header |-> <<"service_id", "title", "image_position", "key_services">>,
     pool   |-> { <<S("s1"), S("T1"), S("left"),
                    <<"One", " ", "|", " ", "Two", " ", "|", " ", "Three">>>>,
                  <<S("s2"), S("T2"), << >>, << >>>>,
                  <<S("s3"), S("T3"), S("center")>>,
                  <<S("s4")>>,
                  <<S("s5"), S("T5"), S("right"), <<" ", "|", "A", "|", "|", " ">>>>,
                  << << >>, S("T6"), S("left")>> }]

DetailsSheetNoPosition ==
    [header |-> <<"service_id", "title">>,
     pool   |-> { <<S("s1"), S("T1")>>,
                  << << >>, S("T2")>> }]

ParserSheets ==
    {FieldValueSheet, ValuesSheet, ValuesSheetNoGradient, ServicesSheet,
     ServicesSheetNoGradient, DetailsSheet, DetailsSheetNoPosition}

---------------------------------------------------------------------------
(* main() is not running in the specifications of the pure functions *)

Sections ==
    {"general", "hero", "about", "values", "services", "service_details", "contact"}

NoSheet == [header |-> << >>, lines |-> << >>]

Idle(dir) ==
    /\ pc = "idle"
    /\ config = [file |-> "absent", keys |-> {}]
    /\ served = [s \in Sections |-> NoSheet]
    /\ images_dir = dir
    /\ data = [s \in Sections |-> << >>]
    /\ fetched = {}
    /\ failed = {}
    /\ rec = [s \in Sections |-> << >>]
    /\ parsed = {}
    /\ img_i = 0
    /\ attempts = 0
    /\ saved = {}
    /\ html = << >>
    /\ index_html = << >>
    /\ writes = 0
    /\ exit_status = -1
    /\ diag = FALSE
    /\ raised = ""
    /\ raised_in = ""

MainIdle == Idle("absent")

---------------------------------------------------------------------------
(* Specification of the section parsers: any parser on any sheet's rows *)

ParseInit ==
    /\ MainIdle
    /\ \E sheet \in ParserSheets :
           \E lines \in SeqsUpTo(sheet.pool, MaxRows) :
               f_in = DictReader(sheet.header, lines)
    /\ f_name = ""
    /\ f_out = None

Apply(name, result) ==
    /\ f_name' = name
    /\ f_out' = result
    /\ UNCHANGED <<f_in, mainVars>>

CallParseGeneralInfo == Apply("parse_general_info", Ok(parse_general_info(f_in)))

CallParseHero == Apply("parse_hero", Ok(parse_hero(f_in)))

CallParseAbout == Apply("parse_about", parse_about(f_in))

CallParseCoreValues == Apply("parse_core_values", Ok(parse_core_values(f_in)))

CallParseServices == Apply("parse_services", Ok(parse_services(f_in)))

CallParseServiceDetails == Apply("parse_service_details", Ok(parse_service_details(f_in)))

CallParseContact == Apply("parse_contact", Ok(parse_contact(f_in)))

ParseNext ==
    \/ CallParseGeneralInfo
    \/ CallParseHero
    \/ CallParseAbout
    \/ CallParseCoreValues
    \/ CallParseServices
    \/ CallParseServiceDetails
    \/ CallParseContact

ParseSpec == ParseInit /\ [][ParseNext]_vars

---------------------------------------------------------------------------
(* main(): one run of the program *)

SectionOrder ==
    <<"general", "hero", "about", "values", "services", "service_details", "contact">>

FieldValueHeader == <<"field", "value">>

DriveFileUrl == <<"https://", "drive.google.com", "/file", "/d/", "ABC123", "/view">>

DriveUcUrl == <<"https://", "drive.google.com", "/uc", "?", "id=", "XYZ_9">>

DriveFolderUrl == <<"https://", "drive.google.com", "/folders">>

PlainUrl == <<"https://", "example.com", "/logo.png">>

LocalPath == <<"images/", "logo.png">>

\* the sheets that can be published for each section
Published ==
    [general |->
        { [header |-> FieldValueHeader,
           lines  |-> << <<S("site_title"), S("Acme")>>, <<S("logo_url"), DriveFileUrl>> >>],
          [header |-> FieldValueHeader,
           lines  |-> << <<S("company_name"), S("Acme Co")>>, <<S("logo_url"), LocalPath>> >>],
          [header |-> FieldValueHeader,
           lines  |-> << <<S("logo_url"), DriveFolderUrl>> >>] },
     hero |->
        { [header |-> FieldValueHeader,
           lines  |-> << <<S("title"), S("Hello")>>, <<S("subtitle")>> >>] },
     about |->
        { [header |-> FieldValueHeader,
           lines  |-> << <<S("title"), S("Who we are")>>,
                         <<<<"paragraph", "1">>, S("P1")>>,
                         <<<<"x", "_number">>, S("5")>>,
                         <<<<"x", "_label">>, S("Clients")>> >>],
          [header |-> <<"value", "field">>,
           lines  |-> << <<S("X"), S("title")>>, <<S("5")>> >>] },
     values |->
        { [header |-> <<"icon", "title", "description", "gradient">>,
           lines  |-> << <<S("I1"), S("T1"), S("D1"), << >>>> >>] },
     services |->
        { [header |-> <<"name", "link_id", "gradient">>,
           lines  |-> << <<S("N1"), S("s1"), S("g1")>> >>] },
     service_details |->
        { [header |-> <<"service_id", "title", "intro", "bg_image", "image_position">>,
           lines  |-> << <<S("s1"), S("T1"), <<"A", "|", "|", "B">>, DriveUcUrl, S("left")>>,
                         <<S("s2"), S("T2"), S("I2"), PlainUrl, << >>>> >>],
          [header |-> <<"service_id", "title", "intro", "bg_image", "image_position">>,
           lines  |-> << <<S("s1"), S("T1")>> >>] },
     contact |->
        { [header |-> FieldValueHeader,
           lines  |-> << <<S("title"), S("Reach us")>> >>] }]

\* sheet_config.json: missing, not JSON, a JSON array, or a JSON object
\* with all or some of the seven keys
ConfigFiles ==
    { [file |-> "absent", keys |-> {}],
      [file |-> "unparsable", keys |-> {}],
      [file |-> "array", keys |-> {}],
      [file |-> "object", keys |-> Sections],
      [file |-> "object", keys |-> Sections \ {"hero"}] }

Init ==
    /\ pc = "load_config"
    /\ config \in ConfigFiles
    /\ \E g \in Published.general, h \in Published.hero, a \in Published.about,
          v \in Published.values, sv \in Published.services,
          d \in Published.service_details, c \in Published.contact :
           served = [general |-> g, hero |-> h, about |-> a, values |-> v,
                     services |-> sv, service_details |-> d, contact |-> c]
    /\ images_dir \in {"absent", "present", "blocked"}
    /\ data = [s \in Sections |-> << >>]
    /\ fetched = {}
    /\ failed = {}
    /\ rec = [s \in Sections |-> << >>]
    /\ parsed = {}
    /\ img_i = 0
    /\ attempts = 0
    /\ saved = {}
    /\ html = << >>
    /\ index_html = << >>
    /\ writes = 0
    /\ exit_status = -1
    /\ diag = FALSE
    /\ raised = ""
    /\ raised_in = ""
    /\ f_in = << >>
    /\ f_name = ""
    /\ f_out = None

\* an exception leaves main(): the interpreter prints it and exits with 1
Crash(exc, where) ==
    /\ pc' = "exited"
    /\ exit_status' = 1
    /\ raised' = exc
    /\ raised_in' = where

\* load_config(), called at the first statement of main()
LoadConfig ==
    /\ pc = "load_config"
    /\ IF config.file = "absent"
       THEN /\ diag' = TRUE
            /\ pc' = "exited"
            /\ exit_status' = 1
            /\ UNCHANGED <<raised, raised_in>>
       ELSE IF config.file = "unparsable"
       THEN /\ Crash("JSONDecodeError", "load_config")
            /\ UNCHANGED diag
       ELSE /\ pc' = "fetch"
            /\ UNCHANGED <<diag, exit_status, raised, raised_in>>
    /\ UNCHANGED <<config, served, images_dir, data, fetched, failed, rec, parsed,
                   img_i, attempts, saved, html, index_html, writes, funVars>>

\* read_csv_from_url(url): the rows of the sheet when the request and the
\* decoding succeed, [] when anything in the try block raises
read_csv_from_url(reachable, sheet) ==
    IF reachable THEN DictReader(sheet.header, sheet.lines) ELSE << >>

NextOf(done) == SectionOrder[Cardinality(done) + 1]

\* one of the seven read_csv_from_url(config.get(...)) statements of main()
ReadCsv ==
    /\ pc = "fetch"
    /\ LET s == NextOf(fetched)
       IN  IF config.file # "object"
           THEN /\ Crash("AttributeError", "main")
                /\ UNCHANGED <<data, fetched, failed>>
           ELSE \E up \in BOOLEAN :
                    LET reachable == up /\ s \in config.keys
                    IN  /\ data' = [data EXCEPT ![s] = read_csv_from_url(reachable, served[s])]
                        /\ fetched' = fetched \cup {s}
                        /\ failed' = IF reachable THEN failed ELSE failed \cup {s}
                        /\ pc' = IF fetched' = Sections THEN "parse" ELSE "fetch"
                        /\ UNCHANGED <<exit_status, raised, raised_in>>
    /\ UNCHANGED <<config, served, images_dir, rec, parsed, img_i, attempts, saved,
                   html, index_html, writes, diag, funVars>>

\* the parser main() applies to a section's rows
Parser(s, rows) ==
    CASE s = "general" -> Ok(parse_general_info(rows))
      [] s = "hero" -> Ok(parse_hero(rows))
      [] s = "about" -> parse_about(rows)
      [] s = "values" -> Ok(parse_core_values(rows))
      [] s = "services" -> Ok(parse_services(rows))
      [] s = "service_details" -> Ok(parse_service_details(rows))
      [] s = "contact" -> Ok(parse_contact(rows))

ParserName(s) ==
    CASE s = "general" -> "parse_general_info"
      [] s = "hero" -> "parse_hero"
      [] s = "about" -> "parse_about"
      [] s = "values" -> "parse_core_values"
      [] s = "services" -> "parse_services"
      [] s = "service_details" -> "parse_service_details"
      [] s = "contact" -> "parse_contact"

\* the rows main() hands to the parser of section s
ParserInput(s) == data[s]

\* one of the seven parse statements of main()
ParseSection ==
    /\ pc = "parse"
    /\ LET s == NextOf(parsed)
           r == Parser(s, ParserInput(s))
       IN  IF r.ok
           THEN /\ rec' = [rec EXCEPT ![s] = r.val]
                /\ parsed' = parsed \cup {s}
                /\ pc' = IF parsed' = Sections THEN "logo" ELSE "parse"
                /\ UNCHANGED <<exit_status, raised, raised_in>>
           ELSE /\ Crash(r.exc, ParserName(s))
                /\ UNCHANGED <<rec, parsed>>
    /\ UNCHANGED <<config, served, images_dir, data, fetched, failed, img_i, attempts,
                   saved, html, index_html, writes, diag, funVars>>

\* effects of one process_image_url call on the images folder and the
\* counters, the retrieval ending as net
Mirror(url, filename, net) ==
    /\ attempts' = IF Downloads(url) THEN attempts + 1 ELSE attempts
    /\ images_dir' = IF MakesDir(url, images_dir # "blocked") THEN "present" ELSE images_dir
    /\ saved' = IF WritesFile(url, images_dir # "blocked", net)
                THEN saved \cup {<<"images/">> \o filename} ELSE saved

\* process_all_images: the logo
ProcessLogo ==
    /\ pc = "logo"
    /\ LET general == rec["general"]
           after == IF rec["service_details"] = << >> THEN "generate" ELSE "backgrounds"
       IN  IF S("logo_url") \in DOMAIN general /\ is_gdrive_url(general[S("logo_url")])
           THEN \E net \in Retrievals :
                    LET url == general[S("logo_url")]
                        r == process_image_url(url, S("logo.png"), images_dir # "blocked", net)
                    IN  /\ Mirror(url, S("logo.png"), net)
                        /\ IF r.ok
                           THEN /\ rec' = [rec EXCEPT !["general"] = DictSet(general, S("logo_url"), r.val)]
                                /\ pc' = after
                                /\ UNCHANGED <<exit_status, raised, raised_in>>
                           ELSE /\ Crash(r.exc, "download_image_from_gdrive")
                                /\ UNCHANGED rec
           ELSE /\ pc' = after
                /\ UNCHANGED <<rec, attempts, images_dir, saved, exit_status, raised, raised_in>>
    /\ img_i' = 1
    /\ UNCHANGED <<config, served, data, fetched, failed, parsed, html, index_html,
                   writes, diag, funVars>>

\* process_all_images: one iteration of the loop over service_details
ProcessBackground ==
    /\ pc = "backgrounds"
    /\ LET details == rec["service_details"]
           detail == details[img_i]
           filename == Fmt(detail.service_id) \o S("-bg.jpg")
           after == IF img_i = Len(details) THEN "generate" ELSE "backgrounds"
       IN  IF is_gdrive_url(detail.bg_image)
           THEN \E net \in Retrievals :
                    LET r == process_image_url(detail.bg_image, filename,
                                               images_dir # "blocked", net)
                    IN  /\ Mirror(detail.bg_image, filename, net)
                        /\ IF r.ok
                           THEN /\ rec' = [rec EXCEPT !["service_details"][img_i].bg_image = r.val]
                                /\ pc' = after
                                /\ img_i' = img_i + 1
                                /\ UNCHANGED <<exit_status, raised, raised_in>>
                           ELSE /\ Crash(r.exc, "download_image_from_gdrive")
                                /\ UNCHANGED <<rec, img_i>>
           ELSE /\ pc' = after
                /\ img_i' = img_i + 1
                /\ UNCHANGED <<rec, attempts, images_dir, saved, exit_status, raised, raised_in>>
    /\ UNCHANGED <<config, served, data, fetched, failed, parsed, html, index_html,
                   writes, diag, funVars>>

\* generate_html applied to the records as the parsers returned them, the
\* references rewritten by process_all_images ignored
GenerateHtml_Unmirrored ==
    /\ pc = "generate"
    /\ html' = generate_html(parse_general_info(data["general"]), rec["hero"], rec["about"],
                             rec["values"], rec["services"],
                             parse_service_details(data["service_details"]), rec["contact"])
    /\ pc' = "write"
    /\ UNCHANGED <<config, served, images_dir, data, fetched, failed, rec, parsed, img_i,
                   attempts, saved, index_html, writes, exit_status, diag, raised,
                   raised_in, funVars>>

\* html = generate_html(...)
GenerateHtml ==
    /\ pc = "generate"
    /\ html' = generate_html(rec["general"], rec["hero"], rec["about"], rec["values"],
                             rec["services"], rec["service_details"], rec["contact"])
    /\ pc' = "write"
    /\ UNCHANGED <<config, served, images_dir, data, fetched, failed, rec, parsed, img_i,
                   attempts, saved, index_html, writes, exit_status, diag, raised,
                   raised_in, funVars>>

\* the page is written and main() returns
WriteIndex ==
    /\ pc = "write"
    /\ index_html' = html
    /\ writes' = writes + 1
    /\ pc' = "exited"
    /\ exit_status' = 0
    /\ UNCHANGED <<config, served, images_dir, data, fetched, failed, rec, parsed, img_i,
                   attempts, saved, html, diag, raised, raised_in, funVars>>

Next ==
    \/ LoadConfig
    \/ ReadCsv
    \/ ParseSection
    \/ ProcessLogo
    \/ ProcessBackground
    \/ GenerateHtml
    \/ WriteIndex

Spec == Init /\ [][Next]_vars

---------------------------------------------------------------------------
(* Specification of the image-mirror functions: each function on any URL *)

MaxUrlTail == 2

UrlHosts == { <<"drive.google.com">>, <<"lh3.", "googleusercontent.com">>, <<"example.com">> }

UrlTailTokens ==
    {"/file", "/d/", "?", "id=", "ABC123", "XYZ_9", "/view", "/logo.png", "drive.google.com"}

\* a URL on another host whose query holds the name of an image host
OtherHostUrl == <<"https://", "example.com", "/logo.png", "?", "drive.google.com">>

\* a URL in which both '/d/<id>' and 'id=<id>' occur
BothPatternsUrl == <<"https://", "drive.google.com", "/d/", "ABC123", "?", "id=", "XYZ_9">>

Urls ==
    { <<"https://">> \o host \o tail :
          host \in UrlHosts, tail \in SeqsUpTo(UrlTailTokens, MaxUrlTail) }
    \cup { << >>, LocalPath, PlainUrl, DriveFileUrl, DriveUcUrl, DriveFolderUrl,
           OtherHostUrl, BothPatternsUrl }

\* download_image_from_gdrive calls made on one URL
MaxAttempts == 1

UrlInit ==
    /\ \E dir \in {"absent", "present", "blocked"} : Idle(dir)
    /\ f_in \in Urls
    /\ f_name = ""
    /\ f_out = None

CallIsGdriveUrl == Apply("is_gdrive_url", Ok(is_gdrive_url(f_in)))

CallExtractGdriveFileId == Apply("extract_gdrive_file_id", Ok(extract_gdrive_file_id(f_in)))

\* the filenames process_all_images passes as default_filename
DefaultFilenames == { S("logo.png"), <<"s1", "-bg.jpg">> }

\* process_image_url(url, default_filename) with images/ absent, present or
\* impossible to make and the retrieval ending in any way; the call leaves
\* its folder, its file and its download attempt behind, and its result is
\* recorded with the call's filename, its environment and whether
\* download_image_from_gdrive was entered
CallProcessImageUrl ==
    /\ Downloads(f_in) => attempts < MaxAttempts
    /\ \E default_filename \in DefaultFilenames, net \in Retrievals :
           LET dir_ok == images_dir # "blocked"
           IN  /\ f_name' = "process_image_url"
               /\ f_out' = [call |-> process_image_url(f_in, default_filename, dir_ok, net),
                            default_filename |-> default_filename,
                            dir_ok |-> dir_ok,
                            net |-> net,
                            downloads |-> Downloads(f_in)]
               /\ Mirror(f_in, default_filename, net)
    /\ UNCHANGED <<f_in, pc, config, served, data, fetched, failed, rec, parsed, img_i,
                   html, index_html, writes, exit_status, diag, raised, raised_in>>

UrlNext ==
    \/ CallIsGdriveUrl
    \/ CallExtractGdriveFileId
    \/ CallProcessImageUrl

UrlSpec == UrlInit /\ [][UrlNext]_vars

---------------------------------------------------------------------------
(* Specification of text_to_paragraphs: the function on any free text *)

MaxTextLen == 6

TextTokens == {"A", "B", "|", "\n", " "}

PipesExample == <<"A", "|", "|", "B", "|", "|", "C">>

SingleLineExample == <<"single", " ", "line">>

Texts == SeqsUpTo(TextTokens, MaxTextLen) \cup {PipesExample, SingleLineExample}

TextInit ==
    /\ MainIdle
    /\ f_in \in Texts
    /\ f_name = ""
    /\ f_out = None

CallTextToParagraphs == Apply("text_to_paragraphs", Ok(text_to_paragraphs(f_in)))

TextNext == CallTextToParagraphs

TextSpec == TextInit /\ [][TextNext]_vars

---------------------------------------------------------------------------
(* Properties *)

\* the configuration file held a key -> URL mapping and load_config returned it
ConfigLoaded == config.file = "object"

\* C1: once the config has been loaded, every run ends with exit status 0
\* and index.html written, whichever fetches and image downloads fail; the
\* exit status is non-zero only when the config file could not be loaded.
C1_LoadedRunCompletes ==
    (pc = "exited" /\ ConfigLoaded) => (exit_status = 0 /\ writes = 1)

\* C2: with the config file absent or unparsable the run ends at once with a
\* non-zero exit status and the diagnostic telling the operator to create
\* the file; nothing is fetched and index.html is not written.
C2_ConfigFailureIsDiagnosed ==
    (pc = "exited" /\ config.file \in {"absent", "unparsable"}) =>
        (exit_status # 0 /\ diag /\ fetched = {} /\ writes = 0)

\* C3: no exception ever leaves read_csv_from_url or
\* download_image_from_gdrive, a failure to create images/ included.
C3_NothingLeavesFetchOrDownload ==
    raised_in \notin {"read_csv_from_url", "download_image_from_gdrive"}

\* the rows section s gets from its own fetch alone
OwnRows(s) == read_csv_from_url(s \notin failed, served[s])

EmptyAbout == [title |-> << >>, paragraphs |-> << >>, stats |-> << >>]

\* the substitution points of the page that belong to section s
PartOf(s, page) ==
    CASE s = "about" -> <<page.about_title, page.about_paragraphs, page.stats, page.grid_cols>>
      [] s = "services" -> <<page.services>>
      [] s = "contact" -> <<page.contact_title, page.name_label, page.name_placeholder,
                            page.email_label, page.email_placeholder, page.message_label,
                            page.message_placeholder, page.contact_button>>

\* the page rendered from the record r of section s and nothing else
PageOf(s, r) ==
    generate_html(EmptyDict, EmptyDict,
                  IF s = "about" THEN r ELSE EmptyAbout,
                  << >>,
                  IF s = "services" THEN r ELSE << >>,
                  << >>,
                  IF s = "contact" THEN r ELSE EmptyDict)

\* C4: the record and the rendered output of about, services and contact are
\* the ones the section's own fetch outcome gives, whatever the outcome of the
\* other sections' fetches: a finished run has produced and rendered them.
C4_SectionDependsOnOwnFetch ==
    (pc = "exited" /\ ConfigLoaded) =>
        \A s \in {"about", "services", "contact"} :
            Parser(s, OwnRows(s)).ok =>
                /\ s \in parsed
                /\ rec[s] = Parser(s, OwnRows(s)).val
                /\ writes = 1
                /\ PartOf(s, index_html) = PartOf(s, PageOf(s, rec[s]))

ParserNames ==
    {"parse_general_info", "parse_hero", "parse_about", "parse_core_values",
     "parse_services", "parse_service_details", "parse_contact"}

\* C5: every section parser returns a record for every row sequence the
\* fetcher can return; none raises.
C5_ParsersAreTotal ==
    f_name \in ParserNames => f_out.ok

\* the rows of f_in that have a non-empty value in column c
Qualifying(c) == SelectSeq(f_in, LAMBDA row : Truthy(Get(row, c)))

\* C6: every ServiceDetail record has image_position "left" or "right":
\* "left" exactly when the row's image_position is exactly "left", "right"
\* for every other value, blank or absent.
C6_ImagePositionLeftOrRight ==
    f_name = "parse_service_details" =>
        /\ Len(f_out.val) = Len(Qualifying("service_id"))
        /\ \A i \in 1..Len(f_out.val) :
               f_out.val[i].image_position =
                   IF Get(Qualifying("service_id")[i], "image_position") = <<"left">>
                   THEN <<"left">> ELSE <<"right">>

\* the cell of the row, or the documented default when the cell is blank
OrDefault(row, c, d) == IF Truthy(Get(row, c)) THEN row[c] ELSE d

\* C7: parse_core_values and parse_services emit one record per qualifying
\* row, in row order, and a field that is blank in the row takes its
\* documented default.
C7_BlankFieldTakesDefault ==
    /\ f_name = "parse_core_values" =>
           f_out.val =
               [i \in 1..Len(SelectSeq(Qualifying("icon"), LAMBDA row : Truthy(Get(row, "title")))) |->
                   LET row == SelectSeq(Qualifying("icon"), LAMBDA r : Truthy(Get(r, "title")))[i]
                   IN  [icon        |-> OrDefault(row, "icon", DefaultIcon),
                        title       |-> OrDefault(row, "title", << >>),
                        description |-> OrDefault(row, "description", << >>),
                        gradient    |-> OrDefault(row, "gradient", DefaultGradient)]]
    /\ f_name = "parse_services" =>
           f_out.val =
               [i \in 1..Len(Qualifying("name")) |->
                   LET row == Qualifying("name")[i]
                   IN  [name     |-> OrDefault(row, "name", << >>),
                        link_id  |-> OrDefault(row, "link_id", << >>),
                        gradient |-> OrDefault(row, "gradient", DefaultGradient)]]

\* the field name with its '_number' or '_label' suffix stripped
SuffixStripped(field) == SubSeq(field, 1, Len(field) - 1)

\* the rows parse_about routes to the stats merge
IsStatRow(row) ==
    LET field == GetD(row, "field", << >>)
    IN  /\ field # None
        /\ field # <<"title">>
        /\ ~startswith(field, <<"paragraph">>)
        /\ endswith(field, <<"_number">>) \/ endswith(field, <<"_label">>)

\* the stats merge keyed by the suffix-stripped field name
RECURSIVE MergedStats(_, _)
MergedStats(stats, rows) ==
    IF rows = << >> THEN stats
    ELSE LET row == Head(rows)
             key == SuffixStripped(row["field"])
             isNumber == endswith(row["field"], <<"_number">>)
             i == StatIndex(stats, key)
             fresh == [key |-> key,
                       number |-> IF isNumber THEN row["value"] ELSE << >>,
                       label |-> IF isNumber THEN << >> ELSE row["value"]]
         IN  MergedStats(
                 IF i = 0 THEN Append(stats, fresh)
                 ELSE IF isNumber THEN [stats EXCEPT ![i].number = row["value"]]
                 ELSE [stats EXCEPT ![i].label = row["value"]],
                 Tail(rows))

\* C8: parse_about merges stats by the field name with its '_number' or
\* '_label' suffix stripped: one record per key, number and label rows of a
\* key in the same record, records in first-seen key order, a missing half
\* left empty.
C8_StatsMergedBySuffixStrippedKey ==
    (f_name = "parse_about" /\ f_out.ok) =>
        f_out.val.stats = MergedStats(<< >>, SelectSeq(f_in, IsStatRow))

\* C9: a section whose fetch failed is rendered with its default strings:
\* page title 'TriStar', hero heading 'Welcome to TriStar', About heading
\* 'About Us', contact heading 'Get In Touch'.
C9_FailedSectionRendersDefaults ==
    (pc = "exited" /\ writes = 1) =>
        /\ "general" \in failed => index_html.title = <<"TriStar">>
        /\ "hero" \in failed => index_html.hero_title = <<"Welcome to TriStar">>
        /\ "about" \in failed => index_html.about_title = <<"About Us">>
        /\ "contact" \in failed => index_html.contact_title = <<"Get In Touch">>

\* the tokens of a URL that start its path or its query
PathStart == {"/file", "/d/", "/view", "/logo.png", "/uc", "/folders", "?"}

RECURSIVE UpToPath(_)
UpToPath(s) ==
    IF s = << >> \/ Head(s) \in PathStart THEN << >> ELSE <<Head(s)>> \o UpToPath(Tail(s))

\* the host of a URL: what stands between the scheme and the path or query
HostOf(url) ==
    IF url # << >> /\ Head(url) = "https://" THEN UpToPath(Tail(url)) ELSE << >>

ExternalImageDomains == {"drive.google.com", "googleusercontent.com"}

\* the host is one of the two image-hosting domains or a subdomain of one
HostIsExternal(url) ==
    LET host == HostOf(url)
    IN  \/ Len(host) = 1 /\ host[1] \in ExternalImageDomains
        \/ Len(host) = 2 /\ host[1] = "lh3." /\ host[2] \in ExternalImageDomains

\* C10: is_gdrive_url is true exactly when the host of the URL is one of the
\* two external image-hosting domains, not when one of the names only occurs
\* in the path or the query of a URL on another host.
C10_ExternalExactlyByHost ==
    f_name = "is_gdrive_url" => (f_out.val <=> HostIsExternal(f_in))

\* C11: process_image_url returns '' for empty input; the input unchanged,
\* with no download attempted, when it starts with 'images/'; for a URL on an
\* external image host, 'images/<default_filename>' when identifier
\* extraction and download both succeed and '' when either fails; any other
\* URL unchanged.
C11_ResolveByCases ==
    f_name = "process_image_url" =>
        /\ f_out.call.ok
        /\ f_out.call.val =
               IF f_in = << >> THEN << >>
               ELSE IF startswith(f_in, <<"images/">>) THEN f_in
               ELSE IF HostIsExternal(f_in)
                    THEN IF /\ extract_gdrive_file_id(f_in) # None
                            /\ f_out.dir_ok
                            /\ f_out.net = "complete"
                         THEN <<"images/">> \o f_out.default_filename
                         ELSE << >>
               ELSE f_in
        /\ startswith(f_in, <<"images/">>) => ~f_out.downloads

\* the positions of url at which prefix stands followed by at least one
\* identifier character
MatchPositions(url, prefix) ==
    { i \in 1..Len(url) :
          /\ i + Len(prefix) - 1 <= Len(url)
          /\ SubSeq(url, i, i + Len(prefix) - 1) = prefix
          /\ IdRun(SubSeq(url, i + Len(prefix), Len(url))) # << >> }

\* the identifier that follows the leftmost such position
Captured(url, prefix) ==
    LET i == CHOOSE x \in MatchPositions(url, prefix) :
                 \A y \in MatchPositions(url, prefix) : x <= y
    IN  IdRun(SubSeq(url, i + Len(prefix), Len(url)))

\* C12: extract_gdrive_file_id returns the identifier captured by the first
\* of '/d/<id>', 'id=<id>', '/file/d/<id>', in that order, that matches
\* anywhere in the URL, and None when none matches;
\* 'https://drive.google.com/file/d/ABC123/view' gives 'ABC123' and
\* 'https://example.com/logo.png' gives None.
C12_FirstPatternInOrderWins ==
    f_name = "extract_gdrive_file_id" =>
        /\ f_out.val =
               IF f_in = << >> THEN None
               ELSE IF MatchPositions(f_in, <<"/d/">>) # {} THEN Captured(f_in, <<"/d/">>)
               ELSE IF MatchPositions(f_in, <<"id=">>) # {} THEN Captured(f_in, <<"id=">>)
               ELSE IF MatchPositions(f_in, <<"/file", "/d/">>) # {}
                    THEN Captured(f_in, <<"/file", "/d/">>)
               ELSE None
        /\ f_in = DriveFileUrl => f_out.val = S("ABC123")
        /\ f_in = PlainUrl => f_out.val = None

\* the identifier of the claim's example URL has been extracted
C12_Witness ==
    /\ f_name = "extract_gdrive_file_id"
    /\ f_in = DriveFileUrl
    /\ f_out.val = S("ABC123")

\* the segments of text between the occurrences of sep, read left to right;
\* cur is the segment being read at position i
RECURSIVE Segments(_, _, _, _)
Segments(text, sep, i, cur) ==
    IF i > Len(text) THEN <<cur>>
    ELSE IF i + Len(sep) - 1 <= Len(text) /\ SubSeq(text, i, i + Len(sep) - 1) = sep
         THEN <<cur>> \o Segments(text, sep, i + Len(sep), << >>)
    ELSE Segments(text, sep, i + 1, Append(cur, text[i]))

\* the non-empty segments, trimmed, in source order
Blocks(text, sep) ==
    LET segs == Segments(text, sep, 1, << >>)
        trimmed == [k \in 1..Len(segs) |-> strip(segs[k])]
    IN  SelectSeq(trimmed, LAMBDA b : b # << >>)

\* the fallback chain, given what the last step yields
ChainBlocks(text, whole) ==
    IF \E i \in 1..(Len(text) - 1) : text[i] = "|" /\ text[i + 1] = "|"
    THEN Blocks(text, <<"|", "|">>)
    ELSE IF Len(Blocks(text, <<"\n", "\n">>)) > 1 THEN Blocks(text, <<"\n", "\n">>)
    ELSE IF Len(Blocks(text, <<"\n">>)) > 1 THEN Blocks(text, <<"\n">>)
    ELSE whole

\* C13 as stated: text_to_paragraphs splits on '||' when the text contains
\* it, otherwise on blank-line breaks when that gives more than one non-empty
\* segment, otherwise on single line breaks when that gives more than one
\* non-empty segment, otherwise the whole trimmed text is one paragraph;
\* blocks keep source order.
C13_WholeTextIsOneParagraph ==
    (f_name = "text_to_paragraphs" /\ f_in # << >>) =>
        f_out.val = ChainBlocks(f_in, <<strip(f_in)>>)

\* C13 as amended: the same fallback chain, except that in the last step a
\* text whose trimmed form is empty (a whitespace-only or empty field) gives
\* no paragraph block at all; 'A||B||C' gives A, B, C and 'single line' gives
\* one block.
C13_FallbackChain ==
    f_name = "text_to_paragraphs" =>
        /\ f_out.val =
               ChainBlocks(f_in, IF strip(f_in) = << >> THEN << >> ELSE <<strip(f_in)>>)
        /\ f_in = PipesExample => f_out.val = <<S("A"), S("B"), S("C")>>
        /\ f_in = SingleLineExample => f_out.val = <<SingleLineExample>>

\* a text holding a blank-line break and a single line break has been split
\* on the blank-line break only
C13_Witness ==
    /\ f_name = "text_to_paragraphs"
    /\ f_in = <<"A", "\n", "B", "\n", "\n", "A">>
    /\ f_out.val = << <<"A", "\n", "B">>, <<"A">> >>

\* the indices of the rows in which both field and value are non-empty
Contributing(rows) ==
    { i \in 1..Len(rows) : Truthy(Get(rows[i], "field")) /\ Truthy(Get(rows[i], "value")) }

\* each field name bound to the value of the last contributing row that has it
LastWriteMap(rows) ==
    [k \in { rows[i]["field"] : i \in Contributing(rows) } |->
        LET last == CHOOSE i \in Contributing(rows) :
                        /\ rows[i]["field"] = k
                        /\ \A j \in Contributing(rows) : rows[j]["field"] = k => j <= i
        IN  rows[last]["value"]]

\* C14: parse_general_info, parse_hero and parse_contact return the map that
\* binds each field name to the value of the last row having that field name
\* with both field and value non-empty; rows with an empty field or value add
\* nothing and erase nothing.  The map is determined by the rows alone, so a
\* second run of the parser on the same rows gives the same map.
C14_LastWriteWins ==
    f_name \in {"parse_general_info", "parse_hero", "parse_contact"} =>
        f_out.val = LastWriteMap(f_in)

\* a repeated field followed by a row with an empty value has been folded:
\* the later value is bound and the empty one did not erase it
C14_Witness ==
    /\ f_name = "parse_general_info"
    /\ f_in = DictReader(FieldValueSheet.header,
                         << <<S("X"), S("title")>>, <<S("Y"), S("title")>>,
                            << << >>, S("title")>> >>)
    /\ f_out.val = [k \in {S("title")} |-> S("Y")]

\* the references the image mirror can have left for the reference url,
\* whose download is saved under filename: the local copy, which is then on
\* disk, or '' when the mirroring failed; url itself when no mirroring applies
Mirrored(url, filename) ==
    IF Downloads(url)
    THEN {<< >>} \cup ({<<"images/">> \o filename} \cap saved)
    ELSE {url}

\* process_all_images has gone through the logo and every service detail
MirrorFinished == img_i >= 1 /\ img_i > Len(rec["service_details"])

\* C15: the stages of a run occur in the order config load, the seven
\* fetches, the seven parsers, image mirroring, rendering, file write;
\* index.html is written at most once, only after every fetch and every
\* image-mirror attempt has finished, and the page written carries the logo
\* and background-image references as the image mirror rewrote them.
C15_StagesInOrder ==
    /\ pc = "load_config" => (fetched = {} /\ writes = 0)
    /\ fetched # {} => ConfigLoaded
    /\ parsed # {} => fetched = Sections
    /\ (img_i >= 1 \/ attempts > 0 \/ saved # {}) => parsed = Sections
    /\ pc \in {"generate", "write"} => MirrorFinished
    /\ html # << >> => MirrorFinished
    /\ pc = "write" => html # << >>
    /\ writes <= 1
    /\ writes = 0 => index_html = << >>
    /\ writes = 1 =>
           /\ pc = "exited"
           /\ fetched = Sections
           /\ parsed = Sections
           /\ MirrorFinished
           /\ index_html = html
           /\ index_html.logo = Fmt(GetD(rec["general"], S("logo_url"), <<"images/", "logo.png">>))
           /\ Len(index_html.details) = Len(rec["service_details"])
           /\ \A i \in 1..Len(rec["service_details"]) :
                  index_html.details[i].bg_image = Fmt(rec["service_details"][i].bg_image)
           /\ LET general == parse_general_info(data["general"])
                  details == parse_service_details(data["service_details"])
              IN  /\ S("logo_url") \in DOMAIN general =>
                         \E m \in Mirrored(general[S("logo_url")], S("logo.png")) :
                             index_html.logo = Fmt(m)
                  /\ S("logo_url") \notin DOMAIN general =>
                         index_html.logo = <<"images/", "logo.png">>
                  /\ Len(index_html.details) = Len(details)
                  /\ \A i \in 1..Len(details) :
                         \E m \in Mirrored(details[i].bg_image,
                                            Fmt(details[i].service_id) \o S("-bg.jpg")) :
                             index_html.details[i].bg_image = Fmt(m)

\* a run has written a page whose Drive logo and Drive background were both
\* mirrored and are referenced by their local copies
C15_Witness ==
    /\ pc = "exited"
    /\ writes = 1
    /\ S("logo_url") \in DOMAIN parse_general_info(data["general"])
    /\ parse_general_info(data["general"])[S("logo_url")] = DriveFileUrl
    /\ index_html.logo = <<"images/", "logo.png">>
    /\ Len(index_html.details) = 2
    /\ index_html.details[1].bg_image = <<"images/", "s1", "-bg.jpg">>
    /\ index_html.details[2].bg_image = PlainUrl

====
